---- MODULE Spec2Model ----
(***************************************************************************)
(* A model of the expresso crate (src/src/lib.rs): the RPN evaluator       *)
(* evaluate_rpn, the Shunting-Yard converter infix_to_rpn, the fused       *)
(* evaluator sy_evaulate and Tokenizer::new.                               *)
(*                                                                         *)
(* Characters are one-character strings, Rust Strings are sequences of     *)
(* characters.  A u32 is a pair <<hi, lo>> of 16-bit limbs, so that the    *)
(* whole range 0 .. 2^32-1 and the wrap-around at 2^32 are represented.    *)
(* Every entry point is a loop over input_chars; one iteration of that     *)
(* loop (with the inner loops it runs) is one step of the model.           *)
(***************************************************************************)
EXTENDS Integers, Sequences, FiniteSets, TLC

VARIABLES
    overflow_checks,  \* the build profile: TRUE = debug (overflow panics)
    fn,               \* the entry point that was called
    input,            \* its argument `input`
    pos,              \* number of characters input_chars has yielded
    st,               \* the Stack `st` (top = last element)
    output,           \* `output` (infix_to_rpn, sy_evaulate) / `tokens`
    status,           \* "running", "returned" or the kind of panic
    result,           \* the value returned
    popped            \* operators the last step popped from st, in order

vars == <<overflow_checks, fn, input, pos, st, output, status, result, popped>>

----------------------------------------------------------------------------
(* u32 arithmetic on 16-bit limbs                                          *)

B16 == 2^16

\* F(v), with v evaluated once
With(v, F(_)) == CHOOSE r \in {F(x) : x \in {v}} : TRUE

\* the u32 with value n, for 0 <= n < 2^31
U32(n) == <<n \div B16, n % B16>>

IsZero(x) == x = <<0, 0>>

\* x < y on u32 (also on a pair whose hi limb exceeds 16 bits)
Less(x, y) == x[1] < y[1] \/ (x[1] = y[1] /\ x[2] < y[2])

\* every operation returns the wrapped value and whether it overflowed
AddU32(x, y) ==
    LET s == x[2] + y[2]
        h == x[1] + y[1] + (s \div B16)
    IN  [v |-> <<h % B16, s % B16>>, of |-> h >= B16]

SubU32(x, y) ==
    LET d == x[2] - y[2]
        h == x[1] - y[1] - (IF d < 0 THEN 1 ELSE 0)
    IN  [v |-> <<h % B16, d % B16>>, of |-> h < 0]

\* the 32-bit product of two 16-bit limbs, as <<hi, lo>>
Mul16(a, b) ==
    LET p == a * (b \div 256)
        q == a * (b % 256)
        t == (p % 256) * 256 + q
    IN  <<(p \div 256) + (t \div B16), t % B16>>

MulU32(x, y) ==
    LET ll  == Mul16(x[2], y[2])
        lh  == Mul16(x[2], y[1])
        hl  == Mul16(x[1], y[2])
        hh  == Mul16(x[1], y[1])
        mid == ll[1] + lh[2] + hl[2]
    IN  [v  |-> <<mid % B16, ll[2]>>,
         of |-> (lh[1] + hl[1] + (mid \div B16) > 0) \/ hh # <<0, 0>>]

\* the 36-bit product of a u32 and a digit d < 16, as a pair whose hi limb
\* may exceed 16 bits
MulDigit(y, d) ==
    LET l == y[2] * d
    IN  <<y[1] * d + (l \div B16), l % B16>>

\* digit i (0 = least significant) of x in base 16
Digit16(x, i) ==
    IF i >= 4 THEN (x[1] \div 16^(i - 4)) % 16 ELSE (x[2] \div 16^i) % 16

\* 16 * r + d, as a pair whose hi limb may exceed 16 bits
ShiftIn(r, d) ==
    LET l == 16 * r[2] + d
    IN  <<16 * r[1] + (l \div B16), l % B16>>

\* x - y for x >= y, on pairs whose hi limb may exceed 16 bits
SubWide(x, y) ==
    LET lo == x[2] - y[2]
    IN  <<x[1] - y[1] - (IF lo < 0 THEN 1 ELSE 0), lo % B16>>

\* the digit k with k * y <= r < (k + 1) * y, for r < 16 * y
QuotientDigit(r, y) ==
    CHOOSE k \in 0..15 : ~Less(r, MulDigit(y, k)) /\ Less(r, MulDigit(y, k + 1))

\* long division in base 16, most significant digit of x first: i is the
\* number of the digit to bring down, q the quotient and r the remainder
\* of the digits above it
RECURSIVE DivLoop(_, _, _, _, _)
DivLoop(x, y, i, q, r) ==
    IF i < 0 THEN q
    ELSE With(ShiftIn(r, Digit16(x, i)), LAMBDA r2 :
         With(QuotientDigit(r2, y), LAMBDA d :
         With(SubWide(r2, MulDigit(y, d)), LAMBDA r3 :
         With(ShiftIn(q, d), LAMBDA q2 :
              DivLoop(x, y, i - 1, <<q2[1] % B16, q2[2]>>, r3)))))

\* x / y for y # 0
DivU32(x, y) == DivLoop(x, y, 7, <<0, 0>>, <<0, 0>>)

\* the exclusive or of two digits < 16
Xor4(a, b) ==
      ((a + b) % 2)
    + 2 * (((a \div 2) + (b \div 2)) % 2)
    + 4 * (((a \div 4) + (b \div 4)) % 2)
    + 8 * (((a \div 8) + (b \div 8)) % 2)

Xor16(a, b) ==
      Xor4(a % 16, b % 16)
    + 16 * Xor4((a \div 16) % 16, (b \div 16) % 16)
    + 256 * Xor4((a \div 256) % 16, (b \div 256) % 16)
    + 4096 * Xor4(a \div 4096, b \div 4096)

XorU32(x, y) == <<Xor16(x[1], y[1]), Xor16(x[2], y[2])>>

\* a product of values that carry their overflow flag
MulW(x, y) ==
    With(MulU32(x.v, y.v), LAMBDA m : [v |-> m.v, of |-> x.of \/ y.of \/ m.of])

OneW == [v |-> <<0, 1>>, of |-> FALSE]

\* w^d for a digit d < 16: the product of the squares w^1, w^2, w^4, w^8
\* that d selects
SmallPow(w, d) ==
    With(IF d % 2 = 1 THEN w ELSE OneW, LAMBDA t0 :
        IF d < 2 THEN t0
        ELSE With(MulW(w, w), LAMBDA w2 :
             With(IF (d \div 2) % 2 = 1 THEN MulW(t0, w2) ELSE t0, LAMBDA t1 :
                 IF d < 4 THEN t1
                 ELSE With(MulW(w2, w2), LAMBDA w4 :
                      With(IF (d \div 4) % 2 = 1 THEN MulW(t1, w4) ELSE t1, LAMBDA t2 :
                          IF d < 8 THEN t2
                          ELSE With(MulW(w4, w4), LAMBDA w8 : MulW(t2, w8)))))))

Pow16(w) ==
    With(MulW(w, w), LAMBDA w2 :
    With(MulW(w2, w2), LAMBDA w4 :
    With(MulW(w4, w4), LAMBDA w8 : MulW(w8, w8))))

DivBy16(x) == <<x[1] \div 16, (x[2] \div 16) + (x[1] % 16) * 2^12>>

\* u32::pow, on the base-16 digits of the exponent, least significant
\* first: w is the base raised to the weight of the current digit, acc the
\* product so far.  Only the products that the power is made of are
\* computed, so `of` is set iff the power does not fit in a u32.
RECURSIVE PowLoop(_, _, _)
PowLoop(w, e, acc) ==
    With(IF e[2] % 16 = 0 THEN acc ELSE MulW(acc, SmallPow(w, e[2] % 16)), LAMBDA acc2 :
        IF IsZero(DivBy16(e)) THEN acc2
        ELSE With(Pow16(w), LAMBDA w16 :
             With(DivBy16(e), LAMBDA rest : PowLoop(w16, rest, acc2))))

\* b.pow(e): the wrapped value and whether it overflowed
PowU32(b, e) == PowLoop([v |-> b, of |-> FALSE], e, OneW)

----------------------------------------------------------------------------
(* characters                                                              *)

Digits == {"0", "1", "2", "3", "4", "5", "6", "7", "8", "9"}

\* char::is_digit(10)
IsDigit(c) == c \in Digits

\* char::to_digit(10) of a digit
ToDigit(c) ==
    CASE c = "0" -> 0 [] c = "1" -> 1 [] c = "2" -> 2 [] c = "3" -> 3
      [] c = "4" -> 4 [] c = "5" -> 5 [] c = "6" -> 6 [] c = "7" -> 7
      [] c = "8" -> 8 [] c = "9" -> 9

\* char::is_whitespace: the space, the tab and the other White_Space
\* characters, of which the model has these two
IsWhitespace(c) == c \in {" ", "\t"}

\* str::parse::<u32> of a non-empty run of digits: `ok` is FALSE when the
\* number does not fit in a u32
RECURSIVE ParseLoop(_, _, _)
ParseLoop(num, i, acc) ==
    IF i > Len(num) THEN [ok |-> TRUE, v |-> acc]
    ELSE With(MulU32(acc, <<0, 10>>), LAMBDA m :
         With(AddU32(m.v, <<0, ToDigit(num[i])>>), LAMBDA a :
             IF m.of \/ a.of THEN [ok |-> FALSE, v |-> <<0, 0>>]
             ELSE ParseLoop(num, i + 1, a.v)))

ParseU32(num) == ParseLoop(num, 1, <<0, 0>>)

\* the index of the last character of the maximal run of digits of inp
\* that starts at index i
RECURSIVE RunEnd(_, _)
RunEnd(inp, i) ==
    IF i < Len(inp) /\ IsDigit(inp[i + 1]) THEN RunEnd(inp, i + 1) ELSE i

----------------------------------------------------------------------------
(* Stack<T>                                                                *)

None == "None"

StackLen(s) == Len(s)

StackPush(s, e) == Append(s, e)

\* Stack::peek: the top, or None
StackPeek(s) == IF Len(s) = 0 THEN None ELSE s[Len(s)]

\* a pop that yields 0 on an empty stack where Stack::pop panics
StackPopOrZero(s) ==
    IF Len(s) = 0 THEN [ok |-> TRUE, v |-> <<0, 0>>, s |-> s]
    ELSE [ok |-> TRUE, v |-> s[Len(s)], s |-> SubSeq(s, 1, Len(s) - 1)]

\* Stack::pop: `ok` is FALSE when it panics ("Stack is empty")
StackPop(s) ==
    IF Len(s) = 0 THEN [ok |-> FALSE, v |-> None, s |-> s]
    ELSE [ok |-> TRUE, v |-> s[Len(s)], s |-> SubSeq(s, 1, Len(s) - 1)]

----------------------------------------------------------------------------
(* Operator                                                                *)

Operators == {"+", "-", "/", "*", "^"}

IsValid(op) == op \in Operators

\* an associativity that takes '^' for left associative like the others
GetAssociativityAllLeft(op) ==
    IF op \in {"+", "-", "/", "*", "^"} THEN "true" ELSE "panic"

\* "true" = left associative, "false" = right associative; "panic" is the
\* panic on an unsupported operator
GetAssociativity(op) ==
    IF op \in {"+", "-", "/", "*"} THEN "true"
    ELSE IF op = "^" THEN "false"
    ELSE "panic"

\* the precedence; 0 stands for the panic on an unsupported operator
GetPrecedence(op) ==
    IF op \in {"+", "-"} THEN 2
    ELSE IF op \in {"/", "*"} THEN 3
    ELSE IF op = "^" THEN 4
    ELSE 0

----------------------------------------------------------------------------
(* the state of a call                                                     *)

\* a call's locals as a record, so that a step is a function on them
Start == [pos |-> 0, st |-> <<>>, output |-> <<>>, status |-> "running",
          result |-> <<>>, popped |-> <<>>]

Panic(s, kind) == [s EXCEPT !.status = kind]

\* a u32 operation's outcome under the build profile oc: the arithmetic
\* panics on overflow when overflow checks are on and wraps when they are off
Arith(r, oc) ==
    With(r, LAMBDA x : IF x.of /\ oc THEN [status |-> "Overflow", v |-> x.v]
                       ELSE [status |-> "ok", v |-> x.v])

DivArith(x, y) ==
    IF IsZero(y) THEN [status |-> "DivideByZero", v |-> <<0, 0>>]
    ELSE [status |-> "ok", v |-> DivU32(x, y)]

----------------------------------------------------------------------------
(* evaluate_rpn                                                            *)

\* the match on the operator character, with `right` the value popped
\* first and `left` the value popped second
RpnApply(c, right, left, oc) ==
    CASE c = "+" -> Arith(AddU32(right, left), oc)
      [] c = "-" -> Arith(SubU32(right, left), oc)
      [] c = "*" -> Arith(MulU32(right, left), oc)
      [] c = "/" -> DivArith(right, left)
      [] c = "^" -> [status |-> "ok", v |-> XorU32(right, left)]
      [] OTHER   -> [status |-> "UnexpectedOperator", v |-> <<0, 0>>]

\* the digit branch: collect the run of digits, read one character more
\* (which is dropped), push the number
RpnNumberStep(inp, s) ==
    With(RunEnd(inp, s.pos + 1), LAMBDA k :
        IF k = Len(inp)
        THEN Panic([s EXCEPT !.pos = k], "UnwrapNone")
        ELSE With(ParseU32(SubSeq(inp, s.pos + 1, k)), LAMBDA num :
                 IF ~num.ok
                 THEN Panic([s EXCEPT !.pos = k + 1], "ParseError")
                 ELSE [s EXCEPT !.pos = k + 1, !.st = StackPush(s.st, num.v)]))

\* the operator branch: two pops, then the match
RpnOperatorStep(inp, oc, s) ==
    LET c  == inp[s.pos + 1]
        s1 == [s EXCEPT !.pos = s.pos + 1]
    IN  With(StackPop(s.st), LAMBDA p1 :
            IF ~p1.ok THEN Panic(s1, "StackUnderflow")
            ELSE With(StackPop(p1.s), LAMBDA p2 :
                     IF ~p2.ok THEN Panic([s1 EXCEPT !.st = p1.s], "StackUnderflow")
                     ELSE With(RpnApply(c, p1.v, p2.v, oc), LAMBDA r :
                              IF r.status # "ok"
                              THEN Panic([s1 EXCEPT !.st = p2.s], r.status)
                              ELSE [s1 EXCEPT !.st = StackPush(p2.s, r.v)])))

\* after the loop: return st.pop()
RpnReturn(s) ==
    With(StackPop(s.st), LAMBDA p :
        IF ~p.ok THEN Panic(s, "StackUnderflow")
        ELSE [s EXCEPT !.st = p.s, !.status = "returned", !.result = p.v])

\* one iteration of the loop of evaluate_rpn (or the return after it)
RpnStep(inp, oc, s) ==
    IF s.pos = Len(inp) THEN RpnReturn(s)
    ELSE LET c == inp[s.pos + 1]
         IN  IF IsWhitespace(c) THEN [s EXCEPT !.pos = s.pos + 1]
             ELSE IF IsDigit(c) THEN RpnNumberStep(inp, s)
             ELSE RpnOperatorStep(inp, oc, s)

RECURSIVE RpnRun(_, _, _)
RpnRun(inp, oc, s) ==
    IF s.status # "running" THEN s
    ELSE With(RpnStep(inp, oc, s), LAMBDA t : RpnRun(inp, oc, t))

\* the outcome of evaluate_rpn(inp)
EvaluateRpn(inp, oc) == RpnRun(inp, oc, Start)

----------------------------------------------------------------------------
(* infix_to_rpn                                                            *)

\* output += &c.to_string(); output += " "
Emit(out, c) == out \o <<c, " ">>

\* a pop that drops the operator instead of writing it to the output
PopAndDrop(s) ==
    With(StackPop(s.st), LAMBDA p :
        [s EXCEPT !.st = p.s, !.popped = Append(s.popped, p.v)])

\* st.pop() into the output
PopToOutput(s) ==
    With(StackPop(s.st), LAMBDA p :
        [s EXCEPT !.st = p.s, !.output = Emit(s.output, p.v),
                  !.popped = Append(s.popped, p.v)])

\* the loop of the ')' branch: pop into the output until the top is '(';
\* the assert_ne!(st.len(), 0) fails when the stack runs empty
RECURSIVE InfixCloseLoop(_)
InfixCloseLoop(s) ==
    IF StackPeek(s.st) = "(" THEN s
    ELSE IF StackLen(s.st) = 0 THEN Panic(s, "AssertStackNotEmpty")
    ELSE With(PopToOutput(s), LAMBDA t : InfixCloseLoop(t))

\* the ')' branch: the loop, then the assert_eq! and the pop of the '('
InfixParenRightStep(s) ==
    With(InfixCloseLoop(s), LAMBDA l :
        IF l.status # "running" THEN l
        ELSE [l EXCEPT !.st = StackPop(l.st).s])

\* a condition under which the operator loop pops nothing
PopNever(o2_prec, o1_prec, o1) == FALSE

\* the condition of the operator loop apart from its tests of o2; o2_prec
\* is the precedence taken before the loop
PopCondition(o2_prec, o1_prec, o1) ==
    o2_prec > o1_prec \/ (o2_prec = o1_prec /\ GetAssociativity(o1) = "true")

\* the tests of o2 in the condition of the operator loop
IsOperatorOnTop(o2) == o2 # None /\ o2 # "("

\* the while loop of the operator branch: o2 is looked up again after
\* every pop, o2_prec is not
RECURSIVE InfixPopLoop(_, _, _, _)
InfixPopLoop(s, o1, o1_prec, o2_prec) ==
    IF IsOperatorOnTop(StackPeek(s.st)) /\ PopCondition(o2_prec, o1_prec, o1)
    THEN With(PopToOutput(s), LAMBDA t : InfixPopLoop(t, o1, o1_prec, o2_prec))
    ELSE s

\* the operand of the second get_precedence call: o2.unwrap_or(&'+')
UnwrapOrPlus(o2) == IF o2 = None THEN "+" ELSE o2

\* the operator branch
InfixOperatorStep(o1, s) ==
    LET o1_prec == GetPrecedence(o1)
        o2_prec == GetPrecedence(UnwrapOrPlus(StackPeek(s.st)))
    IN  IF o1_prec = 0 \/ o2_prec = 0 THEN Panic(s, "UnsupportedOperator")
        ELSE With(InfixPopLoop(s, o1, o1_prec, o2_prec), LAMBDA l :
                 [l EXCEPT !.st = StackPush(l.st, o1)])

\* the loop after the input: everything left on the stack goes to the
\* output; the assert_ne! fails on a '('
RECURSIVE InfixDrainLoop(_)
InfixDrainLoop(s) ==
    IF StackLen(s.st) = 0 THEN s
    ELSE IF StackPeek(s.st) = "(" THEN Panic(s, "AssertNotParenLeft")
    ELSE With(PopToOutput(s), LAMBDA t : InfixDrainLoop(t))

\* output[..output.len() - 1] of an empty output: the subtraction overflows
\* (a panic with overflow checks, else the slice index is out of range)
InfixReturn(oc, s) ==
    With(InfixDrainLoop(s), LAMBDA l :
        IF l.status # "running" THEN l
        ELSE IF Len(l.output) = 0
        THEN Panic(l, IF oc THEN "Overflow" ELSE "SliceIndex")
        ELSE [l EXCEPT !.status = "returned",
                       !.result = SubSeq(l.output, 1, Len(l.output) - 1)])

\* one iteration of the loop of infix_to_rpn (or what follows the loop); a
\* character that is none of the five kinds is passed over
InfixStep(inp, oc, s0) ==
    With([s0 EXCEPT !.popped = <<>>], LAMBDA s :
        IF s.pos = Len(inp) THEN InfixReturn(oc, s)
        ELSE With([s EXCEPT !.pos = s.pos + 1], LAMBDA s1 :
                 LET c == inp[s.pos + 1]
                 IN  IF IsWhitespace(c) THEN s1
                     ELSE IF IsDigit(c) THEN [s1 EXCEPT !.output = Emit(s.output, c)]
                     ELSE IF c = "(" THEN [s1 EXCEPT !.st = StackPush(s.st, c)]
                     ELSE IF c = ")" THEN InfixParenRightStep(s1)
                     ELSE IF IsValid(c) THEN InfixOperatorStep(c, s1)
                     ELSE s1))

RECURSIVE InfixRun(_, _, _)
InfixRun(inp, oc, s) ==
    IF s.status # "running" THEN s
    ELSE With(InfixStep(inp, oc, s), LAMBDA t : InfixRun(inp, oc, t))

\* the outcome of infix_to_rpn(inp)
InfixToRpn(inp, oc) == InfixRun(inp, oc, Start)

----------------------------------------------------------------------------
(* sy_evaulate                                                             *)

\* the match of evaluator_handle_pop
SyApply(op, left, right, oc) ==
    CASE op = "+" -> Arith(AddU32(left, right), oc)
      [] op = "-" -> Arith(SubU32(left, right), oc)
      [] op = "*" -> Arith(MulU32(left, right), oc)
      [] op = "/" -> DivArith(left, right)
      [] op = "^" -> Arith(PowU32(left, right), oc)
      [] OTHER    -> [status |-> "UnexpectedOperator", v |-> <<0, 0>>]

\* evaluator_handle_pop followed by the caller's unwrap and
\* evaluator_add_to_output: pop an operator, pop right then left from the
\* output, push the value.  The pop of a '(' returns None, which the
\* caller unwraps.
HandlePop(oc, s) ==
    With(StackPop(s.st), LAMBDA p :
        IF ~p.ok THEN Panic(s, "StackUnderflow")
        ELSE IF p.v = "(" THEN Panic([s EXCEPT !.st = p.s], "UnwrapNone")
        ELSE With([s EXCEPT !.st = p.s, !.popped = Append(s.popped, p.v)], LAMBDA s1 :
             With(StackPop(s.output), LAMBDA r :
                 IF ~r.ok THEN Panic(s1, "UnwrapNone")
                 ELSE With(StackPop(r.s), LAMBDA l :
                          IF ~l.ok THEN Panic([s1 EXCEPT !.output = r.s], "UnwrapNone")
                          ELSE With(SyApply(p.v, l.v, r.v, oc), LAMBDA v :
                                   IF v.status # "ok"
                                   THEN Panic([s1 EXCEPT !.output = l.s], v.status)
                                   ELSE [s1 EXCEPT !.output = Append(l.s, v.v)])))))

RECURSIVE SyCloseLoop(_, _)
SyCloseLoop(oc, s) ==
    IF StackPeek(s.st) = "(" THEN s
    ELSE IF StackLen(s.st) = 0 THEN Panic(s, "AssertStackNotEmpty")
    ELSE With(HandlePop(oc, s), LAMBDA h :
             IF h.status # "running" THEN h ELSE SyCloseLoop(oc, h))

SyParenRightStep(oc, s) ==
    With(SyCloseLoop(oc, s), LAMBDA l :
        IF l.status # "running" THEN l
        ELSE [l EXCEPT !.st = StackPop(l.st).s])

RECURSIVE SyPopLoop(_, _, _, _, _)
SyPopLoop(oc, s, o1, o1_prec, o2_prec) ==
    IF IsOperatorOnTop(StackPeek(s.st)) /\ PopCondition(o2_prec, o1_prec, o1)
    THEN With(HandlePop(oc, s), LAMBDA h :
             IF h.status # "running" THEN h
             ELSE SyPopLoop(oc, h, o1, o1_prec, o2_prec))
    ELSE s

SyOperatorStep(oc, o1, s) ==
    LET o1_prec == GetPrecedence(o1)
        o2_prec == GetPrecedence(UnwrapOrPlus(StackPeek(s.st)))
    IN  IF o1_prec = 0 \/ o2_prec = 0 THEN Panic(s, "UnsupportedOperator")
        ELSE With(SyPopLoop(oc, s, o1, o1_prec, o2_prec), LAMBDA l :
                 IF l.status # "running" THEN l
                 ELSE [l EXCEPT !.st = StackPush(l.st, o1)])

RECURSIVE SyDrainLoop(_, _)
SyDrainLoop(oc, s) ==
    IF StackLen(s.st) = 0 THEN s
    ELSE IF StackPeek(s.st) = "(" THEN Panic(s, "AssertNotParenLeft")
    ELSE With(HandlePop(oc, s), LAMBDA h :
             IF h.status # "running" THEN h ELSE SyDrainLoop(oc, h))

\* return output[0]
SyReturn(oc, s) ==
    With(SyDrainLoop(oc, s), LAMBDA l :
        IF l.status # "running" THEN l
        ELSE IF Len(l.output) = 0 THEN Panic(l, "IndexOutOfBounds")
        ELSE [l EXCEPT !.status = "returned", !.result = l.output[1]])

\* one iteration of the loop of sy_evaulate (or what follows the loop)
SyStep(inp, oc, s0) ==
    With([s0 EXCEPT !.popped = <<>>], LAMBDA s :
        IF s.pos = Len(inp) THEN SyReturn(oc, s)
        ELSE With([s EXCEPT !.pos = s.pos + 1], LAMBDA s1 :
                 LET c == inp[s.pos + 1]
                 IN  IF IsWhitespace(c) THEN s1
                     ELSE IF IsDigit(c)
                     THEN [s1 EXCEPT !.output = Append(s.output, <<0, ToDigit(c)>>)]
                     ELSE IF c = "(" THEN [s1 EXCEPT !.st = StackPush(s.st, c)]
                     ELSE IF c = ")" THEN SyParenRightStep(oc, s1)
                     ELSE IF IsValid(c) THEN SyOperatorStep(oc, c, s1)
                     ELSE s1))

RECURSIVE SyRun(_, _, _)
SyRun(inp, oc, s) ==
    IF s.status # "running" THEN s
    ELSE With(SyStep(inp, oc, s), LAMBDA t : SyRun(inp, oc, t))

\* the outcome of sy_evaulate(inp)
SyEvaluate(inp, oc) == SyRun(inp, oc, Start)

----------------------------------------------------------------------------
(* Tokenizer::new                                                          *)

\* Tokens::Number(n)
Number(n) == <<"Number", n>>

\* the match on the character: the token pushed, "skip" for the space,
\* "panic" for any other character
SymbolToken(c) ==
    CASE c = "+" -> <<"Plus">>
      [] c = "-" -> <<"Minus">>
      [] c = "*" -> <<"Asterisk">>
      [] c = "/" -> <<"Slash">>
      [] c = "^" -> <<"Caret">>
      [] c = "(" -> <<"ParenLeft">>
      [] c = ")" -> <<"ParenRight">>
      [] c = " " -> <<"skip">>
      [] OTHER   -> <<"panic">>

\* the digit branch: the inner loop reads on until a character that is no
\* digit (read and dropped) or the end of the input
TokNumberStep(inp, s) ==
    With(RunEnd(inp, s.pos + 1), LAMBDA k :
    With(ParseU32(SubSeq(inp, s.pos + 1, k)), LAMBDA num :
    With([s EXCEPT !.pos = IF k = Len(inp) THEN k ELSE k + 1], LAMBDA s1 :
        IF ~num.ok THEN Panic(s1, "ParseError")
        ELSE [s1 EXCEPT !.output = Append(s.output, Number(num.v))])))

\* one iteration of the outer loop of Tokenizer::new (or the return)
TokStep(inp, s) ==
    IF s.pos = Len(inp) THEN [s EXCEPT !.status = "returned", !.result = s.output]
    ELSE LET c  == inp[s.pos + 1]
             t  == SymbolToken(c)
             s1 == [s EXCEPT !.pos = s.pos + 1]
         IN  IF IsDigit(c) THEN TokNumberStep(inp, s)
             ELSE IF t = <<"skip">> THEN s1
             ELSE IF t = <<"panic">> THEN Panic(s1, "UnexpectedCharacter")
             ELSE [s1 EXCEPT !.output = Append(s.output, t)]

RECURSIVE TokRun(_, _)
TokRun(inp, s) ==
    IF s.status # "running" THEN s
    ELSE With(TokStep(inp, s), LAMBDA t : TokRun(inp, t))

\* the outcome of Tokenizer::new(inp); the result is its `tokens`
Tokenize(inp) == TokRun(inp, Start)

----------------------------------------------------------------------------
(* the inputs of the model                                                 *)

MaxRpnLen == 4
MaxInfixLen == 4
MaxTokLen == 5
MaxOps == 2
MaxParenOps == 2

\* the strings over the characters S of length n at most
RECURSIVE Strings(_, _)
Strings(S, n) ==
    IF n = 0 THEN {<<>>}
    ELSE LET P == Strings(S, n - 1)
         IN  P \cup {Append(p, c) : p \in P, c \in S}

RpnChars == {"0", "2", "3", " ", "+", "-", "/", "^", "x"}
InfixChars == {"2", "+", "^", "(", ")", " ", "x"}
TokChars == {"1", "2", "+", ")", " ", "\t", "x"}

Operands == {"2", "3"}

\* operand (op operand)* with exactly k operators, without parentheses
RECURSIVE Chain(_)
Chain(k) ==
    IF k = 0 THEN {<<d>> : d \in Operands}
    ELSE {e \o <<op, d>> : e \in Chain(k - 1), op \in Operators, d \in Operands}

Chains == UNION {Chain(k) : k \in 0..MaxOps}

ParenOperators == {"+", "*"}

\* the expressions with exactly k operators whose operands are digits or
\* parenthesised expressions with an operator: Flat(k) has an operator
\* outside all parentheses (or is a digit), Expr(k) may also be one
\* parenthesised Flat(k)
RECURSIVE Flat(_)
RECURSIVE Expr(_)
Operand(k) ==
    IF k = 0 THEN {<<d>> : d \in Operands}
    ELSE {<<"(">> \o f \o <<")">> : f \in Flat(k)}
Flat(k) ==
    IF k = 0 THEN {<<d>> : d \in Operands}
    ELSE UNION {{e \o <<op>> \o o : e \in Expr(i), op \in ParenOperators,
                                    o \in Operand(k - 1 - i)} : i \in 0..(k - 1)}
Expr(k) == Flat(k) \cup Operand(k)

ParenExprs == UNION {Expr(k) : k \in 0..MaxParenOps}

\* a ^ b ^ c for all digits a, b, c
CaretChains == {<<a, "^", b, "^", c>> : a \in Digits, b \in Digits, c \in Digits}

\* the inputs of the tests of the crate
TestRpnInputs == { <<"1", " ", "2", " ", "+">>,
                   <<"1", "1", " ", "2", "2", " ", "+">>,
                   <<"1", "1", " ", "+", " ", "2", "2">> }
TestInfixInput == <<"1", " ", "+", " ", "2", " ", "*", " ", "3", " ", "-", " ", "4">>

\* "a b op" for all digits a, b and every operator, and for a character
\* that is no operator
BinaryRpnInputs ==
    {<<a, " ", b, " ", op>> : a \in Digits, b \in Digits, op \in Operators \cup {"x"}}

RpnInputs == Strings(RpnChars, MaxRpnLen) \cup BinaryRpnInputs \cup TestRpnInputs
\* 2 op 2 op 2 op 2 for all operators
OperatorTriples ==
    {<<"2", o1, "2", o2, "2", o3, "2">> : o1 \in Operators, o2 \in Operators, o3 \in Operators}

\* an expression with operands of two digits
MultiDigitInfixInput == <<"1", "1", " ", "+", " ", "2", "2">>

InfixInputs ==
    Strings(InfixChars, MaxInfixLen) \cup Chains \cup ParenExprs \cup CaretChains
        \cup {TestInfixInput, <<"2", " ", "^", " ", "3", " ", "^", " ", "2">>,
              MultiDigitInfixInput}
        \cup OperatorTriples
TokInputs == Strings(TokChars, MaxTokLen) \cup {TestInfixInput}

----------------------------------------------------------------------------
(* the state machine: a call of one entry point, one loop iteration a step *)

Cur == [pos |-> pos, st |-> st, output |-> output, status |-> status,
        result |-> result, popped |-> popped]

Set(s) ==
    /\ pos' = s.pos
    /\ st' = s.st
    /\ output' = s.output
    /\ status' = s.status
    /\ result' = s.result
    /\ popped' = s.popped
    /\ UNCHANGED <<overflow_checks, fn, input>>

InitCall(f, inputs) ==
    /\ overflow_checks \in BOOLEAN
    /\ fn = f
    /\ input \in inputs
    /\ pos = 0
    /\ st = <<>>
    /\ output = <<>>
    /\ status = "running"
    /\ result = <<>>
    /\ popped = <<>>

\* the loop of fn f is about to read a character / has read them all
Reading(f) == fn = f /\ status = "running" /\ pos < Len(input)
AtEnd(f) == fn = f /\ status = "running" /\ pos = Len(input)
Char == input[pos + 1]

InitRpn == InitCall("evaluate_rpn", RpnInputs)

RpnWhitespace ==
    /\ Reading("evaluate_rpn") /\ IsWhitespace(Char)
    /\ \E s \in {RpnStep(input, overflow_checks, Cur)} : Set(s)
RpnNumber ==
    /\ Reading("evaluate_rpn") /\ IsDigit(Char)
    /\ \E s \in {RpnStep(input, overflow_checks, Cur)} : Set(s)
RpnOperator ==
    /\ Reading("evaluate_rpn") /\ ~IsWhitespace(Char) /\ ~IsDigit(Char)
    /\ \E s \in {RpnStep(input, overflow_checks, Cur)} : Set(s)
RpnFinish ==
    /\ AtEnd("evaluate_rpn")
    /\ \E s \in {RpnStep(input, overflow_checks, Cur)} : Set(s)

NextRpn == RpnWhitespace \/ RpnNumber \/ RpnOperator \/ RpnFinish
SpecRpn == InitRpn /\ [][NextRpn]_vars

InitInfix == InitCall("infix_to_rpn", InfixInputs)

InfixWhitespace ==
    /\ Reading("infix_to_rpn") /\ IsWhitespace(Char)
    /\ \E s \in {InfixStep(input, overflow_checks, Cur)} : Set(s)
InfixDigit ==
    /\ Reading("infix_to_rpn") /\ IsDigit(Char)
    /\ \E s \in {InfixStep(input, overflow_checks, Cur)} : Set(s)
InfixParenLeft ==
    /\ Reading("infix_to_rpn") /\ Char = "("
    /\ \E s \in {InfixStep(input, overflow_checks, Cur)} : Set(s)
InfixParenRight ==
    /\ Reading("infix_to_rpn") /\ Char = ")"
    /\ \E s \in {InfixStep(input, overflow_checks, Cur)} : Set(s)
InfixOperator ==
    /\ Reading("infix_to_rpn") /\ IsValid(Char)
    /\ \E s \in {InfixStep(input, overflow_checks, Cur)} : Set(s)
InfixOther ==
    /\ Reading("infix_to_rpn")
    /\ ~IsWhitespace(Char) /\ ~IsDigit(Char) /\ Char \notin {"(", ")"} /\ ~IsValid(Char)
    /\ \E s \in {InfixStep(input, overflow_checks, Cur)} : Set(s)
InfixFinish ==
    /\ AtEnd("infix_to_rpn")
    /\ \E s \in {InfixStep(input, overflow_checks, Cur)} : Set(s)

NextInfix ==
    \/ InfixWhitespace \/ InfixDigit \/ InfixParenLeft \/ InfixParenRight
    \/ InfixOperator \/ InfixOther \/ InfixFinish
SpecInfix == InitInfix /\ [][NextInfix]_vars

InitSy == InitCall("sy_evaulate", InfixInputs)

SyWhitespace ==
    /\ Reading("sy_evaulate") /\ IsWhitespace(Char)
    /\ \E s \in {SyStep(input, overflow_checks, Cur)} : Set(s)
SyDigit ==
    /\ Reading("sy_evaulate") /\ IsDigit(Char)
    /\ \E s \in {SyStep(input, overflow_checks, Cur)} : Set(s)
SyParenLeft ==
    /\ Reading("sy_evaulate") /\ Char = "("
    /\ \E s \in {SyStep(input, overflow_checks, Cur)} : Set(s)
SyParenRight ==
    /\ Reading("sy_evaulate") /\ Char = ")"
    /\ \E s \in {SyStep(input, overflow_checks, Cur)} : Set(s)
SyOperator ==
    /\ Reading("sy_evaulate") /\ IsValid(Char)
    /\ \E s \in {SyStep(input, overflow_checks, Cur)} : Set(s)
SyOther ==
    /\ Reading("sy_evaulate")
    /\ ~IsWhitespace(Char) /\ ~IsDigit(Char) /\ Char \notin {"(", ")"} /\ ~IsValid(Char)
    /\ \E s \in {SyStep(input, overflow_checks, Cur)} : Set(s)
SyFinish ==
    /\ AtEnd("sy_evaulate")
    /\ \E s \in {SyStep(input, overflow_checks, Cur)} : Set(s)

NextSy ==
    \/ SyWhitespace \/ SyDigit \/ SyParenLeft \/ SyParenRight
    \/ SyOperator \/ SyOther \/ SyFinish
SpecSy == InitSy /\ [][NextSy]_vars

InitTok == InitCall("Tokenizer::new", TokInputs)

TokNumber ==
    /\ Reading("Tokenizer::new") /\ IsDigit(Char)
    /\ \E s \in {TokStep(input, Cur)} : Set(s)
TokSymbol ==
    /\ Reading("Tokenizer::new") /\ ~IsDigit(Char)
    /\ SymbolToken(Char) \notin {<<"skip">>, <<"panic">>}
    /\ \E s \in {TokStep(input, Cur)} : Set(s)
TokSpace ==
    /\ Reading("Tokenizer::new") /\ Char = " "
    /\ \E s \in {TokStep(input, Cur)} : Set(s)
TokUnexpected ==
    /\ Reading("Tokenizer::new") /\ ~IsDigit(Char)
    /\ SymbolToken(Char) = <<"panic">>
    /\ \E s \in {TokStep(input, Cur)} : Set(s)
TokFinish ==
    /\ AtEnd("Tokenizer::new")
    /\ \E s \in {TokStep(input, Cur)} : Set(s)

NextTok == TokNumber \/ TokSymbol \/ TokSpace \/ TokUnexpected \/ TokFinish
SpecTok == InitTok /\ [][NextTok]_vars

\* the two Shunting-Yard entry points
InitYard == InitInfix \/ InitSy
NextYard == NextInfix \/ NextSy
SpecYard == InitYard /\ [][NextYard]_vars

Init == InitRpn \/ InitInfix \/ InitSy \/ InitTok
Next == NextRpn \/ NextInfix \/ NextSy \/ NextTok
Spec == Init /\ [][Next]_vars

----------------------------------------------------------------------------
(* reference definitions, independent of the code                          *)

\* the input without its whitespace
Unspaced(inp) == SelectSeq(inp, LAMBDA c : ~IsWhitespace(c))

\* the flags of the open parentheses once the innermost has an operator
MarkTop(open) == IF Len(open) = 0 THEN open ELSE [open EXCEPT ![Len(open)] = TRUE]

\* e is operand (operator operand)* with the operators of ops, where an
\* operand is a digit or a parenthesised expression of the same form that
\* contains an operator: open holds, for each open parenthesis, whether an
\* operator has been seen inside it, operand tells what must come next
RECURSIVE WellFormedFrom(_, _, _, _, _)
WellFormedFrom(e, ops, i, open, operand) ==
    IF i > Len(e) THEN Len(open) = 0 /\ ~operand
    ELSE IF operand
    THEN \/ IsDigit(e[i]) /\ WellFormedFrom(e, ops, i + 1, open, FALSE)
         \/ e[i] = "(" /\ WellFormedFrom(e, ops, i + 1, Append(open, FALSE), TRUE)
    ELSE \/ e[i] \in ops /\ WellFormedFrom(e, ops, i + 1, MarkTop(open), TRUE)
         \/ /\ e[i] = ")" /\ Len(open) > 0 /\ open[Len(open)]
            /\ WellFormedFrom(e, ops, i + 1, MarkTop(SubSeq(open, 1, Len(open) - 1)), FALSE)

\* inp is a well-formed infix expression over the operators ops
WellFormed(inp, ops) == WellFormedFrom(Unspaced(inp), ops, 1, <<>>, TRUE)

HasParens(inp) == \E i \in 1..Len(inp) : inp[i] \in {"(", ")"}

\* the precedence and associativity rules of the specification
RefPrecedence(op) == IF op \in {"+", "-"} THEN 2 ELSE IF op \in {"*", "/"} THEN 3 ELSE 4
RefRightAssociative(op) == op = "^"

\* the number of parentheses open before position i of e
ParenDepth(e, i) ==
    Cardinality({j \in 1..(i - 1) : e[j] = "("}) - Cardinality({j \in 1..(i - 1) : e[j] = ")"})

\* the positions of the operators of e outside all parentheses
TopOperators(e) == {i \in 1..Len(e) : e[i] \in Operators /\ ParenDepth(e, i) = 0}

\* the operator at which a well-formed e splits into its two operands: of
\* the operators of lowest precedence outside parentheses the last one,
\* or the first if they associate to the right
MainOperator(e) ==
    LET low == {i \in TopOperators(e) :
                   \A j \in TopOperators(e) : RefPrecedence(e[i]) <= RefPrecedence(e[j])}
    IN  IF \E i \in low : RefRightAssociative(e[i])
        THEN CHOOSE i \in low : \A j \in low : i <= j
        ELSE CHOOSE i \in low : \A j \in low : i >= j

\* the postfix form of the parse of a well-formed e, as a token sequence
RECURSIVE RefPostfix(_)
RefPostfix(e) ==
    IF TopOperators(e) = {}
    THEN IF e[1] = "(" THEN RefPostfix(SubSeq(e, 2, Len(e) - 1)) ELSE e
    ELSE With(MainOperator(e), LAMBDA m :
             RefPostfix(SubSeq(e, 1, m - 1)) \o RefPostfix(SubSeq(e, m + 1, Len(e)))
                 \o <<e[m]>>)

\* tokens joined by single spaces
RECURSIVE Join(_)
Join(t) == IF Len(t) <= 1 THEN t ELSE <<t[1], " ">> \o Join(Tail(t))

\* the value of a well-formed e over + - * /, on the integers; ok is FALSE
\* when a difference is negative or a divisor is zero
RefApply(op, l, r) ==
    IF ~l.ok \/ ~r.ok THEN [ok |-> FALSE, v |-> 0]
    ELSE CASE op = "+" -> [ok |-> TRUE, v |-> l.v + r.v]
           [] op = "-" -> [ok |-> l.v >= r.v, v |-> l.v - r.v]
           [] op = "*" -> [ok |-> TRUE, v |-> l.v * r.v]
           [] op = "/" -> IF r.v = 0 THEN [ok |-> FALSE, v |-> 0]
                          ELSE [ok |-> TRUE, v |-> l.v \div r.v]

RECURSIVE RefValue(_)
RefValue(e) ==
    IF TopOperators(e) = {}
    THEN IF e[1] = "(" THEN RefValue(SubSeq(e, 2, Len(e) - 1))
         ELSE [ok |-> TRUE, v |-> ToDigit(e[1])]
    ELSE With(MainOperator(e), LAMBDA m :
         With(RefValue(SubSeq(e, 1, m - 1)), LAMBDA l :
         With(RefValue(SubSeq(e, m + 1, Len(e))), LAMBDA r : RefApply(e[m], l, r))))

----------------------------------------------------------------------------
(* the claims                                                              *)

Done == status # "running"
Returned == status = "returned"

\* C1: for every well-formed infix expression over single-digit operands
\* and + - * / ^, infix_to_rpn returns the postfix form of the expression's
\* parse under the precedence and associativity rules (stated here for the
\* expressions without parentheses).
C1_PostfixOfParse ==
    (fn = "infix_to_rpn" /\ Done /\ WellFormed(input, Operators) /\ ~HasParens(input))
        => Returned /\ result = Join(RefPostfix(Unspaced(input)))

\* C2: for every well-formed infix expression E without '^',
\* sy_evaulate(E) returns the value that evaluate_rpn(infix_to_rpn(E))
\* returns, and neither fails where the other returns.
C2_EvaluatorsAgree ==
    (fn = "sy_evaulate" /\ Done /\ WellFormed(input, Operators \ {"^"}))
        => With(InfixToRpn(input, overflow_checks), LAMBDA rpn :
               IF rpn.status # "returned" THEN ~Returned
               ELSE With(EvaluateRpn(rpn.result, overflow_checks), LAMBDA ev :
                        /\ Returned <=> ev.status = "returned"
                        /\ Returned => result = ev.result))

\* C3: for every well-formed infix expression E over + - * / whose value
\* under standard precedence and left-to-right grouping is defined,
\* evaluate_rpn(infix_to_rpn(E)) is that value.
C3_RoundTrip ==
    (fn = "infix_to_rpn" /\ Done /\ WellFormed(input, Operators \ {"^"})
        /\ RefValue(Unspaced(input)).ok)
        => /\ Returned
           /\ With(EvaluateRpn(result, overflow_checks), LAMBDA ev :
                  ev.status = "returned" /\ ev.result = U32(RefValue(Unspaced(input)).v))

\* the input "a b op" of evaluate_rpn, for digits a and b
IsBinaryRpn(inp) ==
    /\ Len(inp) = 5
    /\ IsDigit(inp[1]) /\ inp[2] = " " /\ IsDigit(inp[3]) /\ inp[4] = " "

\* C4: evaluate_rpn("a b -") is a - b and evaluate_rpn("a b /") is a / b:
\* the value popped second is the left operand, the value popped first the
\* right one.
C4_LeftOpRight ==
    (fn = "evaluate_rpn" /\ Done /\ IsBinaryRpn(input))
        => LET a == ToDigit(input[1])
               b == ToDigit(input[3])
           IN  /\ (input[5] = "-" /\ a >= b) => Returned /\ result = U32(a - b)
               /\ (input[5] = "/" /\ b # 0) => Returned /\ result = U32(a \div b)

\* evaluate_rpn is about to process an operator token with fewer than two
\* operands on the stack
OperatorShort ==
    /\ Reading("evaluate_rpn")
    /\ ~IsWhitespace(Char) /\ ~IsDigit(Char)
    /\ StackLen(st) < 2

\* C5: when evaluate_rpn reaches an operator token while fewer than two
\* operands are on the stack, the call fails there with the stack underflow
\* of Stack::pop and so never returns a value.
C5_OperatorUnderflows == [][OperatorShort => status' = "StackUnderflow"]_vars

\* "11 + 22" has failed at its '+' with one operand on the stack
C5_Witness ==
    /\ fn = "evaluate_rpn"
    /\ input = <<"1", "1", " ", "+", " ", "2", "2">>
    /\ pos = 4 /\ st = <<>> /\ status = "StackUnderflow"

\* C6: whenever evaluate_rpn returns, the stack held exactly one value
\* after the last token: the returned value is popped from it and nothing
\* is left behind.
C6_ExactlyOneValue ==
    (fn = "evaluate_rpn" /\ Returned) => st = <<>>

\* the characters of the tokenizer's language
TokenChars == Digits \cup Operators \cup {"(", ")", " "}

RefSymbol(c) ==
    CASE c = "+" -> <<"Plus">>
      [] c = "-" -> <<"Minus">>
      [] c = "*" -> <<"Asterisk">>
      [] c = "/" -> <<"Slash">>
      [] c = "^" -> <<"Caret">>
      [] c = "(" -> <<"ParenLeft">>
      [] c = ")" -> <<"ParenRight">>

\* the value of a run of digits, on the integers
RECURSIVE RefNumber(_)
RefNumber(run) ==
    IF Len(run) = 0 THEN 0
    ELSE 10 * RefNumber(SubSeq(run, 1, Len(run) - 1)) + ToDigit(run[Len(run)])

\* the tokens of inp from position i on: one Number for each maximal run
\* of digits, one token for each operator or parenthesis, none for a space
RECURSIVE RefTokens(_, _)
RefTokens(inp, i) ==
    IF i > Len(inp) THEN <<>>
    ELSE IF IsDigit(inp[i])
    THEN LET k == CHOOSE j \in i..Len(inp) :
                      /\ \A d \in i..j : IsDigit(inp[d])
                      /\ j = Len(inp) \/ ~IsDigit(inp[j + 1])
         IN  <<Number(U32(RefNumber(SubSeq(inp, i, k))))>> \o RefTokens(inp, k + 1)
    ELSE IF inp[i] = " " THEN RefTokens(inp, i + 1)
    ELSE <<RefSymbol(inp[i])>> \o RefTokens(inp, i + 1)

\* C7: for every input made only of digits, + - * / ^ ( ) and spaces,
\* Tokenizer::new yields, in input order, exactly one Number per maximal
\* run of digits and one token per operator or parenthesis, whether or not
\* a symbol follows a digit directly.
C7_TokensOfInput ==
    (fn = "Tokenizer::new" /\ Done /\ \A i \in 1..Len(input) : input[i] \in TokenChars)
        => Returned /\ result = RefTokens(input, 1)

\* the input is "a ^ b ^ c" for digits a, b, c, with or without spaces
IsCaretChain(inp) ==
    LET e == Unspaced(inp)
    IN  /\ Len(e) = 5
        /\ IsDigit(e[1]) /\ e[2] = "^" /\ IsDigit(e[3]) /\ e[4] = "^" /\ IsDigit(e[5])

\* a to the power e on the integers (0 to the power 0 is 1, as for
\* u32::pow), or -1 when the power is 2^31 or more
RECURSIVE RefPow(_, _)
RefPow(a, e) ==
    IF e = 0 THEN 1
    ELSE IF a <= 1 THEN a
    ELSE IF e > 31 THEN -1
    ELSE With(RefPow(a, e - 1), LAMBDA r :
             IF r = -1 \/ r > 2147483647 \div a THEN -1 ELSE r * a)

\* a to the power (b to the power c) for the caret chain inp
RefRightPow(inp) ==
    LET e == Unspaced(inp)
    IN  RefPow(ToDigit(e[1]), RefPow(ToDigit(e[3]), ToDigit(e[5])))

\* C8, as stated: for single-digit a, b, c, sy_evaulate("a ^ b ^ c")
\* returns a to the power (b to the power c).
C8_PowerOfPower ==
    (fn = "sy_evaulate" /\ Done /\ IsCaretChain(input))
        => Returned /\ RefRightPow(input) # -1 /\ result = U32(RefRightPow(input))

\* C8, amended: for single-digit a, b, c, sy_evaulate("a ^ b ^ c") groups
\* to the right, an incoming '^' popping nothing from the operator stack:
\* it returns a to the power (b to the power c) when that power fits in a
\* u32; when it does not, the call panics on the overflow in a build with
\* overflow checks and returns the power modulo 2^32 in a build without.
\* (For single digits every power that fits in a u32 is below 2^31.)
C8_RightAssociative ==
    (fn = "sy_evaulate" /\ IsCaretChain(input))
        => /\ (status = "running" /\ pos > 0 /\ input[pos] = "^") => popped = <<>>
           /\ Done =>
                With(RefRightPow(input), LAMBDA p :
                    IF p # -1 THEN Returned /\ result = U32(p)
                    ELSE IF overflow_checks THEN status = "Overflow"
                    ELSE LET e == Unspaced(input)
                         IN  /\ Returned
                             /\ result = PowU32(U32(ToDigit(e[1])),
                                    U32(RefPow(ToDigit(e[3]), ToDigit(e[5])))).v)

\* sy_evaulate("2 ^ 3 ^ 2") has returned 512
C8_Witness ==
    /\ fn = "sy_evaulate"
    /\ input = <<"2", " ", "^", " ", "3", " ", "^", " ", "2">>
    /\ Returned /\ result = U32(512)

\* C9: for every well-formed infix expression, parentheses included,
\* infix_to_rpn runs to completion without a panic, a failed assertion or an
\* unsupported-operator failure.
C9_NoFailureOnWellFormed ==
    (fn = "infix_to_rpn" /\ WellFormed(input, Operators))
        => status \in {"running", "returned"}

\* the parentheses of inp[i..j]
Opens(inp, i, j) == Cardinality({k \in i..j : inp[k] = "("})
Closes(inp, i, j) == Cardinality({k \in i..j : inp[k] = ")"})

\* some '(' of inp is closed by no later ')'
HasUnmatchedLeft(inp) ==
    \E i \in 1..Len(inp) :
        /\ inp[i] = "("
        /\ \A j \in (i + 1)..Len(inp) : Closes(inp, i + 1, j) <= Opens(inp, i + 1, j)

\* some ')' of inp closes no earlier '('
HasUnmatchedRight(inp) ==
    \E i \in 1..Len(inp) :
        /\ inp[i] = ")"
        /\ \A j \in 1..(i - 1) : Opens(inp, j, i - 1) <= Closes(inp, j, i - 1)

\* C10: an infix expression with an unmatched '(' (and no unmatched ')')
\* makes infix_to_rpn, and sy_evaulate, fail with the failure of the drain
\* loop that finds '(' on the operator stack at the end of the input: it
\* neither returns nor fails in another way.
C10_UnmatchedLeftFailsInDrain ==
    (fn = "infix_to_rpn" /\ Done /\ HasUnmatchedLeft(input) /\ ~HasUnmatchedRight(input))
        => /\ status = "AssertNotParenLeft"
           /\ SyEvaluate(input, overflow_checks).status = "AssertNotParenLeft"

\* the two ways of failing on an empty operator stack: the assertion of
\* the ')' loop and the panic of Stack::pop
EmptyStackFailures == {"AssertStackNotEmpty", "StackUnderflow"}

\* C11: an infix expression with an unmatched ')' makes infix_to_rpn, and
\* sy_evaulate, fail on the empty operator stack in the loop that looks for
\* the matching '('; no result is returned and no other failure occurs.
C11_UnmatchedRightFailsInLoop ==
    (fn = "infix_to_rpn" /\ Done /\ HasUnmatchedRight(input))
        => /\ status \in EmptyStackFailures
           /\ SyEvaluate(input, overflow_checks).status \in EmptyStackFailures

\* inp is one number, one of + - * /, one number, with spaces at most
\* around the operator
IsBinaryInfix(inp) ==
    LET t == RefTokens(inp, 1)
    IN  /\ \A i \in 1..Len(inp) : inp[i] \in TokenChars
        /\ t = RefTokens(Unspaced(inp), 1)
        /\ Len(t) = 3
        /\ t[1][1] = "Number" /\ t[3][1] = "Number"
        /\ t[2][1] \in {"Plus", "Minus", "Asterisk", "Slash"}

\* the position of the operator of a binary expression without spaces
OperatorAt(e) == CHOOSE k \in 1..Len(e) : e[k] \in Operators

\* the postfix form of a binary expression: the two runs of digits, then
\* the operator
BinaryPostfix(inp) ==
    LET e == Unspaced(inp)
        k == OperatorAt(e)
    IN  SubSeq(e, 1, k - 1) \o <<" ">> \o SubSeq(e, k + 1, Len(e)) \o <<" ", e[k]>>

\* the value of a binary expression, on the integers
BinaryValue(inp) ==
    LET e == Unspaced(inp)
        k == OperatorAt(e)
    IN  RefApply(e[k], [ok |-> TRUE, v |-> RefNumber(SubSeq(e, 1, k - 1))],
                       [ok |-> TRUE, v |-> RefNumber(SubSeq(e, k + 1, Len(e)))])

\* C12: the operands of the infix entry points are the maximal runs of
\* digits: for "n op m" infix_to_rpn returns "n m op" with each run as one
\* token ("11 + 22" gives "11 22 +"), and sy_evaulate returns the value of
\* n op m (33 for "11 + 22").
C12_MultiDigitOperands ==
    (fn = "infix_to_rpn" /\ Done /\ IsBinaryInfix(input) /\ BinaryValue(input).ok)
        => /\ Returned /\ result = BinaryPostfix(input)
           /\ With(SyEvaluate(input, overflow_checks), LAMBDA r :
                  r.status = "returned" /\ r.result = U32(BinaryValue(input).v))

\* the tokens of an RPN input, each followed by one space
RECURSIVE Spaced(_, _)
Spaced(inp, i) ==
    IF i > Len(inp) THEN <<>>
    ELSE IF IsWhitespace(inp[i]) THEN Spaced(inp, i + 1)
    ELSE IF IsDigit(inp[i]) /\ i < Len(inp) /\ IsDigit(inp[i + 1])
    THEN <<inp[i]>> \o Spaced(inp, i + 1)
    ELSE <<inp[i], " ">> \o Spaced(inp, i + 1)

\* C13: the outcome of evaluate_rpn depends on the tokens of the input
\* only, not on the spacing: an input gives what the same tokens give with
\* a space after each ("1 2+" as "1 2 + ", "5" as "5 ").
C13_SpaceTolerant ==
    (fn = "evaluate_rpn" /\ Done
        /\ \A i \in 1..Len(input) :
               IsDigit(input[i]) \/ IsWhitespace(input[i]) \/ input[i] \in Operators)
        => With(EvaluateRpn(Spaced(input, 1), overflow_checks), LAMBDA r :
               /\ Returned <=> r.status = "returned"
               /\ Returned => result = r.result)

\* r has no space at either end and no two spaces in a row
SingleSpaced(r) ==
    \/ r = <<>>
    \/ /\ r[1] # " " /\ r[Len(r)] # " "
       /\ \A i \in 1..(Len(r) - 1) : ~(r[i] = " " /\ r[i + 1] = " ")

\* C14: a string returned by infix_to_rpn is its output tokens separated
\* by exactly one space, with no space at either end; and on an empty or
\* whitespace-only input infix_to_rpn returns the empty string rather than
\* failing.
C14_SpaceSeparated ==
    (fn = "infix_to_rpn" /\ Done)
        => /\ Returned => SingleSpaced(result)
           /\ (\A i \in 1..Len(input) : IsWhitespace(input[i]))
                  => Returned /\ result = <<>>

\* C15: Tokenizer::new fails with the unexpected-character failure on
\* every input with a character that is no digit, none of + - * / ^ ( )
\* and not the space, wherever the character stands; it returns no tokens.
C15_UnexpectedCharacterFails ==
    (fn = "Tokenizer::new" /\ Done /\ \E i \in 1..Len(input) : input[i] \notin TokenChars)
        => status = "UnexpectedCharacter"

\* the condition under which the operator step for o1 pops o2
MayPop(o2, o1) ==
    \/ RefPrecedence(o2) > RefPrecedence(o1)
    \/ RefPrecedence(o2) = RefPrecedence(o1) /\ ~RefRightAssociative(o1)

\* infix_to_rpn has just completed the operator step for input[pos]
OperatorStepDone ==
    /\ fn = "infix_to_rpn" /\ status = "running"
    /\ pos > 0 /\ input[pos] \in Operators

\* C16: in the operator step for o1 every operator popped satisfies, when
\* it is popped, prec(o2) > prec(o1) or (prec(o2) = prec(o1) and o1 is
\* left-associative); popping stops at the first top that does not, at a
\* '(' or at the empty stack, and o1 is pushed.
C16_PopsByCurrentTop ==
    OperatorStepDone
        => /\ \A i \in 1..Len(popped) : MayPop(popped[i], input[pos])
           /\ StackPeek(st) = input[pos]
           /\ StackLen(st) >= 2 =>
                  \/ st[Len(st) - 1] = "("
                  \/ ~MayPop(st[Len(st) - 1], input[pos])

\* a Shunting-Yard entry point is running or has run
InYard == fn \in {"infix_to_rpn", "sy_evaulate"}

\* the operator stack holds operators and '(' markers only
OnlyOperatorsAndMarkers == \A i \in 1..Len(st) : st[i] \in Operators \cup {"("}

\* C17, as stated: the operator stack of infix_to_rpn and sy_evaulate holds
\* only operators and '(' markers, and between two '(' markers the
\* precedences are non-increasing from bottom to top.
C17_NonIncreasing ==
    InYard
        => /\ OnlyOperatorsAndMarkers
           /\ \A i \in 1..(Len(st) - 1) :
                  (st[i] \in Operators /\ st[i + 1] \in Operators)
                      => RefPrecedence(st[i]) >= RefPrecedence(st[i + 1])

\* C17, amended: the operator stack of infix_to_rpn and sy_evaulate holds
\* only operators and '(' markers, and between two '(' markers the
\* precedences are non-decreasing from bottom to top.
C17_NonDecreasing ==
    InYard
        => /\ OnlyOperatorsAndMarkers
           /\ \A i \in 1..(Len(st) - 1) :
                  (st[i] \in Operators /\ st[i + 1] \in Operators)
                      => RefPrecedence(st[i]) <= RefPrecedence(st[i + 1])

\* sy_evaulate holds '+', '*' and '^' on its operator stack, one above the
\* other
C17_Witness ==
    /\ fn = "sy_evaulate" /\ status = "running"
    /\ st = <<"+", "*", "^">>

\* C18: the unsupported-operator failure is unreachable: no run of
\* infix_to_rpn or sy_evaulate calls get_precedence or get_associativity
\* with a character that is none of + - * / ^.
C18_UnsupportedOperatorUnreachable ==
    InYard => status # "UnsupportedOperator"

\* C19: whenever sy_evaulate returns, its output sequence holds exactly one
\* value, the result; an input that leaves several values does not return.
C19_SoleOutputValue ==
    (fn = "sy_evaulate" /\ Returned) => Len(output) = 1 /\ result = output[1]

\* the number of occurrences of c in seq
Count(seq, c) == Cardinality({i \in 1..Len(seq) : seq[i] = c})

\* C20: on every run of infix_to_rpn that returns, the output has no
\* parenthesis, the digits of the input appear in it in their order, and
\* every operator of the input appears in it exactly as often as in the
\* input.
C20_TokensConserved ==
    (fn = "infix_to_rpn" /\ Returned)
        => /\ Count(result, "(") = 0 /\ Count(result, ")") = 0
           /\ SelectSeq(result, IsDigit) = SelectSeq(input, IsDigit)
           /\ \A op \in Operators : Count(result, op) = Count(input, op)

\* infix_to_rpn("1 + 2 * 3 - 4") has returned "1 2 3 * + 4 -"
C20_Witness ==
    /\ fn = "infix_to_rpn" /\ Returned
    /\ input = TestInfixInput
    /\ result = <<"1", " ", "2", " ", "3", " ", "*", " ", "+", " ", "4", " ", "-">>

====
